---------------------------- MODULE Spec2Model ----------------------------
(***************************************************************************)
(* Model of sunpy/image/coalignment.py: the helper functions for image     *)
(* co-alignment (repair_nonfinite, find_best_match_location,               *)
(* get_correlation_shifts, parabolic_turning_point, clip_edges).           *)
(*                                                                         *)
(* Numbers.  A floating point value is a record [k, n, d]: k = "fin" is    *)
(* the rational n/d in lowest terms with d > 0, k = "nan", "inf", "ninf"   *)
(* are the IEEE non-finite values and k = "none" is Python's None.  The    *)
(* inputs are small, so float64 rounding plays no part and the rational is *)
(* the value numpy computes.  Arrays are records [ny, nx, a] whose a maps  *)
(* the 0-based index pair <<row, column>> to the entry, as numpy does.     *)
(***************************************************************************)
EXTENDS Integers, Sequences, FiniteSets, TLC

(***************************************************************************)
(* Bounds of the inputs.                                                   *)
(***************************************************************************)
\* largest number of rows / columns of an array given to repair_nonfinite
MaxDim == 4
\* largest number of cells of a two-dimensional input array
MaxCells == 16
\* largest number of rows / columns of a correlation surface
MaxSurface == 4
\* largest number of non-zero cells of a correlation surface or fit array
MaxNonZero == 2
\* largest correlation score (scores are 0 .. MaxScore)
MaxScore == 2
\* largest number of rows / columns of an array given to
\* get_correlation_shifts directly
MaxArray == 4
\* the samples given to parabolic_turning_point are -MaxSample .. MaxSample
MaxSample == 3
\* largest number of rows / columns of a datacube
MaxCube == 3
\* largest number of layers of a datacube (and of entries of y and x)
MaxLayers == 2
\* the shifts given to clip_edges are -MaxHalfShift/2 .. MaxHalfShift/2 in
\* steps of half a pixel (y) and of a whole pixel (x)
MaxHalfShift == 3

(***************************************************************************)
(* Floating point values.                                                  *)
(***************************************************************************)
Abs(i) == IF i < 0 THEN -i ELSE i

Max2(i, j) == IF i >= j THEN i ELSE j

Min2(i, j) == IF i <= j THEN i ELSE j

RECURSIVE GCD(_, _)
GCD(i, j) == IF j = 0 THEN Abs(i) ELSE GCD(j, i % j)

NaN == [k |-> "nan", n |-> 0, d |-> 1]

PosInf == [k |-> "inf", n |-> 0, d |-> 1]

NegInf == [k |-> "ninf", n |-> 0, d |-> 1]

None == [k |-> "none", n |-> 0, d |-> 1]

\* the float n/d, d # 0, in lowest terms
Fin(n, d) ==
    LET g == GCD(Abs(n), Abs(d))
        s == IF d < 0 THEN -1 ELSE 1
    IN  [k |-> "fin", n |-> s * (n \div g), d |-> s * (d \div g)]

Whole(i) == Fin(i, 1)

\* np.isfinite
isfinite(v) == v.k = "fin"

\* float addition of two finite values
FAdd(v, w) == Fin(v.n * w.d + w.n * v.d, v.d * w.d)

\* float multiplication of two finite values
FMul(v, w) == Fin(v.n * w.n, v.d * w.d)

\* float division of two finite values: IEEE division, x/0 is +-inf and 0/0
\* is nan (numpy warns, it does not raise)
FDiv(v, w) ==
    IF w.n # 0 THEN Fin(v.n * w.d, v.d * w.n)
    ELSE IF v.n > 0 THEN PosInf
    ELSE IF v.n < 0 THEN NegInf
    ELSE NaN

\* float plus integer: a non-finite value stays what it is
FPlus(v, i) == IF isfinite(v) THEN FAdd(v, Whole(i)) ELSE v

\* v <= w for finite values
FLeq(v, w) == v.n * w.d <= w.n * v.d

(***************************************************************************)
(* Arrays and Python's slicing.                                            *)
(***************************************************************************)
Cells(ny, nx) == (0 .. ny - 1) \X (0 .. nx - 1)

Array(ny, nx, f) == [ny |-> ny, nx |-> nx, a |-> f]

\* a slice bound as Python normalises it for an axis of length n: a negative
\* bound counts from the end, and the result is clipped to 0 .. n
PyBound(i, n) ==
    IF i < 0 THEN Max2(i + n, 0) ELSE Min2(i, n)

\* array[start0:stop0, start1:stop1]
Slice2(array, start0, stop0, start1, stop1) ==
    LET r0 == PyBound(start0, array.ny)
        r1 == PyBound(stop0, array.ny)
        c0 == PyBound(start1, array.nx)
        c1 == PyBound(stop1, array.nx)
        ny == Max2(r1 - r0, 0)
        nx == Max2(c1 - c0, 0)
    IN  [ny |-> ny, nx |-> nx,
         a |-> [p \in Cells(ny, nx) |-> array.a[<<r0 + p[1], c0 + p[2]>>]],
         r0 |-> r0, c0 |-> c0]

\* np.unravel_index(np.argmax(array), array.shape): the first cell in
\* row-major order that holds the largest entry (array is not empty and holds
\* finite values)
ArgMax(array) ==
    LET flat(p) == p[1] * array.nx + p[2]
        best == {p \in Cells(array.ny, array.nx) :
                    \A q \in Cells(array.ny, array.nx) :
                        FLeq(array.a[q], array.a[p])}
        first == CHOOSE i \in {flat(p) : p \in best} :
                    \A j \in {flat(p) : p \in best} : i <= j
    IN  <<first \div array.nx, first % array.nx>>

(***************************************************************************)
(* parabolic_turning_point, get_correlation_shifts,                        *)
(* find_best_match_location.                                               *)
(***************************************************************************)
\* y.dot(w) for a three element y and integer weights w
Dot(y, w) ==
    FAdd(FAdd(FMul(y[0], Whole(w[1])), FMul(y[1], Whole(w[2]))),
         FMul(y[2], Whole(w[3])))

\* a slip in the sign of the middle weight
DenominatorWeightsSignSlip == <<1, 2, 1>>

\* the weights of the denominator of the turning point
DenominatorWeights == <<1, -2, 1>>

parabolic_turning_point(y) ==
    LET numerator == FMul(Fin(-1, 2), Dot(y, <<-1, 0, 1>>))
        denominator == Dot(y, DenominatorWeights)
    IN  FDiv(numerator, denominator)

\* a test that lets an array pass that is too big in one direction only
TooBigInBoth(ny, nx) == nx > 3 /\ ny > 3

\* the test on the shape of the input of get_correlation_shifts
TooBig(ny, nx) == nx > 3 \/ ny > 3

\* status "return" with the pair (y, x), or status "raise" when numpy raises;
\* fits counts the calls of parabolic_turning_point
get_correlation_shifts(array) ==
    LET ny == array.ny
        nx == array.nx
    IN  IF TooBig(ny, nx)
        THEN [status |-> "return", y |-> None, x |-> None, fits |-> 0]
        ELSE IF ny = 0 \/ nx = 0
        THEN \* np.argmax of an empty array raises ValueError
             [status |-> "raise", y |-> None, x |-> None, fits |-> 0]
        ELSE
        LET ij == ArgMax(array)
            x_max_location == ij[2]
            y_max_location == ij[1]
            y_location ==
                IF ny = 3
                THEN parabolic_turning_point(
                         [i \in 0 .. 2 |-> array.a[<<i, x_max_location>>]])
                ELSE Whole(y_max_location)
            x_location ==
                IF nx = 3
                THEN parabolic_turning_point(
                         [j \in 0 .. 2 |-> array.a[<<y_max_location, j>>]])
                ELSE Whole(x_max_location)
        IN  [status |-> "return", y |-> y_location, x |-> x_location,
             fits |-> (IF ny = 3 THEN 1 ELSE 0) + (IF nx = 3 THEN 1 ELSE 0)]

\* a stop that is one too far
UpperEdgeTooFar(m, n) == Min2(m + 3, n)

\* the stop of the slice that find_best_match_location takes along an axis
\* of length n around the maximum at index m
UpperEdge(m, n) == Min2(m + 2, n - 1)

\* the start of that slice
LowerEdge(m) == Max2(0, m - 1)

\* corr[...] of lines 154-155
ArrayAroundMaximum(corr) ==
    LET ij == ArgMax(corr)
        cor_max_x == ij[2]
        cor_max_y == ij[1]
    IN  Slice2(corr, LowerEdge(cor_max_y), UpperEdge(cor_max_y, corr.ny),
                     LowerEdge(cor_max_x), UpperEdge(cor_max_x, corr.nx))

find_best_match_location(corr) ==
    LET ij == ArgMax(corr)
        cor_max_x == ij[2]
        cor_max_y == ij[1]
        rel == get_correlation_shifts(ArrayAroundMaximum(corr))
    IN  IF rel.status = "raise" \/ rel.y = None \/ rel.x = None
        THEN \* None + cor_max_y raises TypeError
             [status |-> "raise", y |-> None, x |-> None]
        ELSE [status |-> "return",
              y |-> FPlus(rel.y, cor_max_y), x |-> FPlus(rel.x, cor_max_x)]

(***************************************************************************)
(* repair_nonfinite.                                                       *)
(***************************************************************************)
\* np.where(np.logical_not(np.isfinite(z))): the non-finite cells in
\* row-major order
BadIndex(z) ==
    LET bad == {p \in Cells(z.ny, z.nx) : ~isfinite(z.a[p])}
        flat(p) == p[1] * z.nx + p[2]
    IN  [i \in 1 .. Cardinality(bad) |->
            CHOOSE p \in bad :
                Cardinality({q \in bad : flat(q) < flat(p)}) = i - 1]

\* a centre that takes no account of the boundary
CentreAtBadIndex(b, n) == b

\* the centre of the window along an axis of length n for the bad index b
\* (lines 245-249 and 252-256)
Centre(b, n) ==
    LET x == IF b = 0 THEN 1 ELSE b
    IN  IF b = n - 1 THEN n - 2 ELSE x

\* z[y - 1: y + 2, x - 1: x + 2] for the bad cell (by, bx)
Window(z, by, bx) ==
    LET x == Centre(bx, z.nx)
        y == Centre(by, z.ny)
    IN  Slice2(z, y - 1, y + 2, x - 1, x + 2)

\* v * np.isfinite(v): a finite v times 1.0, a non-finite v times 0.0
TimesIsFinite(v) == IF isfinite(v) THEN v ELSE NaN

RECURSIVE SumOver(_, _)
SumOver(f, S) ==
    IF S = {} THEN Whole(0)
    ELSE LET p == CHOOSE q \in S : TRUE
         IN  FAdd(f[p], SumOver(f, S \ {p}))

\* np.nanmean of an array of finite values and NaNs: the mean of the values
\* that are not NaN, and NaN when there is none
nanmean(array) ==
    LET kept == {p \in Cells(array.ny, array.nx) : array.a[p] # NaN}
    IN  IF kept = {} THEN NaN
        ELSE FDiv(SumOver(array.a, kept), Whole(Cardinality(kept)))

\* a pass that assigns the centre of the window instead of the bad cell
RepairOnceAtCentre(z, bad_index) ==
    LET by == bad_index[1][1]
        bx == bad_index[1][2]
        subarray == Window(z, by, bx)
        masked == [subarray EXCEPT
                      !.a = [p \in DOMAIN subarray.a |->
                                TimesIsFinite(subarray.a[p])]]
    IN  [z EXCEPT !.a[<<Centre(by, z.ny), Centre(bx, z.nx)>>] =
                      nanmean(masked)]

\* z after one pass of the loop body (lines 241-261)
RepairOnce(z, bad_index) ==
    LET by == bad_index[1][1]
        bx == bad_index[1][2]
        subarray == Window(z, by, bx)
        masked == [subarray EXCEPT
                      !.a = [p \in DOMAIN subarray.a |->
                                TimesIsFinite(subarray.a[p])]]
    IN  [z EXCEPT !.a[<<by, bx>>] = nanmean(masked)]

(***************************************************************************)
(* clip_edges.                                                             *)
(***************************************************************************)
\* rounding down instead of up
Floor(v) == v.n \div v.d

\* np.ceil of a finite value
Ceil(v) == -((-v.n) \div v.d)

\* the largest element of a non-empty set of integers
SetMax(S) == CHOOSE i \in S : \A j \in S : j <= i

\* z is a sequence of finite shifts
upper_clip(z) ==
    LET zcond == {i \in DOMAIN z : z[i].n >= 0}
    IN  IF zcond # {} THEN SetMax({Ceil(z[i]) : i \in zcond}) ELSE 0

lower_clip(z) ==
    LET zcond == {i \in DOMAIN z : z[i].n <= 0}
    IN  IF zcond # {} THEN SetMax({Ceil(FMul(Whole(-1), z[i])) : i \in zcond})
        ELSE 0

\* the datacube of shape (ny, nx, nt); every element is labelled with its
\* own index, so that a result tells where its elements come from
Datacube(ny, nx, nt) ==
    [ny |-> ny, nx |-> nx, nt |-> nt,
     a |-> [p \in (0 .. ny - 1) \X (0 .. nx - 1) \X (0 .. nt - 1) |-> p]]

\* datacube[start0:stop0, start1:stop1, start2:stop2]
Slice3(datacube, start0, stop0, start1, stop1, start2, stop2) ==
    LET r0 == PyBound(start0, datacube.ny)
        r1 == PyBound(stop0, datacube.ny)
        c0 == PyBound(start1, datacube.nx)
        c1 == PyBound(stop1, datacube.nx)
        t0 == PyBound(start2, datacube.nt)
        t1 == PyBound(stop2, datacube.nt)
        ny == Max2(r1 - r0, 0)
        nx == Max2(c1 - c0, 0)
        nt == Max2(t1 - t0, 0)
    IN  [ny |-> ny, nx |-> nx, nt |-> nt,
         a |-> [p \in (0 .. ny - 1) \X (0 .. nx - 1) \X (0 .. nt - 1) |->
                   datacube.a[<<r0 + p[1], c0 + p[2], t0 + p[3]>>]]]

clip_edges(datacube, y, x) ==
    LET ny == datacube.ny
        nx == datacube.nx
        nt == datacube.nt
        xupper == upper_clip(x)
        xlower == lower_clip(x)
        yupper == upper_clip(y)
        ylower == lower_clip(y)
    IN  \* the margins are whole-valued floats; the numpy this Python 2 module
        \* was written for takes them as slice bounds
        Slice3(datacube, ylower, ny - yupper - 1, xlower, nx - xupper - 1,
               0, nt)

(***************************************************************************)
(* The inputs.                                                             *)
(***************************************************************************)
\* the subsets of S with at most k elements
RECURSIVE UpTo(_, _)
UpTo(S, k) ==
    IF k = 0 THEN {{}}
    ELSE LET T == UpTo(S, k - 1)
         IN  T \cup {t \cup {p} : t \in T, p \in S}

\* the shapes of the two-dimensional arrays with at least lo and at most hi
\* rows and columns
Shapes(lo, hi) ==
    {s \in (lo .. hi) \X (lo .. hi) : s[1] * s[2] <= MaxCells}

\* the array of shape s with the scores f on the cells S and 0 elsewhere
SparseArray(s, S, f) ==
    Array(s[1], s[2],
          [p \in Cells(s[1], s[2]) |->
              IF p \in S THEN Whole(f[p]) ELSE Whole(0)])

\* array is an array of shape s with scores 0 .. MaxScore of which at most
\* MaxNonZero are not 0
IsSparseArray(array, s) ==
    \E S \in UpTo(Cells(s[1], s[2]), MaxNonZero) :
        \E f \in [S -> 1 .. MaxScore] : array = SparseArray(s, S, f)

\* the rectangular blocks of cells of an array of shape s
Blocks(s) ==
    {(r[1] .. r[2]) \X (c[1] .. c[2]) :
        r \in {q \in (0 .. s[1] - 1) \X (0 .. s[1] - 1) : q[1] <= q[2]},
        c \in {q \in (0 .. s[2] - 1) \X (0 .. s[2] - 1) : q[1] <= q[2]}}

\* the array of shape s given to repair_nonfinite: the entry of cell (i, j)
\* is the finite value i * nx + j - 3, but for the cells B, which hold k, and
\* the cells E, which hold -Inf
Layer(s, B, E, k) ==
    Array(s[1], s[2],
          [p \in Cells(s[1], s[2]) |->
              IF p \in B THEN k
              ELSE IF p \in E THEN NegInf
              ELSE Whole(p[1] * s[2] + p[2] - 3)])

\* layer is an array with a block of NaNs or of +Infs and at most one more
\* non-finite cell
IsLayer(layer) ==
    \E s \in Shapes(1, MaxDim) :
        \E B \in Blocks(s) \cup {{}} :
            \E E \in UpTo(Cells(s[1], s[2]), 1) :
                \E k \in {NaN, PosInf} : layer = Layer(s, B, E, k)

\* the samples given to parabolic_turning_point
Samples ==
    {[i \in 0 .. 2 |-> Whole(t[i + 1])] :
        t \in (-MaxSample .. MaxSample) \X (-MaxSample .. MaxSample)
                \X (-MaxSample .. MaxSample)}

\* the arguments of clip_edges: one shift per layer, y in steps of half a
\* pixel and x the same whole number of pixels for every layer
IsClipArguments(arguments) ==
    \E s \in (1 .. MaxCube) \X (1 .. MaxCube) \X (1 .. MaxLayers) :
        \E ys \in [1 .. s[3] ->
                      {Fin(h, 2) : h \in -MaxHalfShift .. MaxHalfShift}] :
            \E h \in -1 .. 1 :
                arguments = [datacube |-> Datacube(s[1], s[2], s[3]),
                             y |-> ys,
                             x |-> [i \in 1 .. s[3] |-> Whole(h)]]

\* the worked example: shape (10, 10, 3), y = [2, -1, 0], x = [0, 0, 0]
ExampleArguments ==
    [datacube |-> Datacube(10, 10, 3),
     y |-> <<Whole(2), Whole(-1), Whole(0)>>,
     x |-> <<Whole(0), Whole(0), Whole(0)>>]

(***************************************************************************)
(* The state: one call of one of the functions.                            *)
(***************************************************************************)
VARIABLES
    op,                    \* the function that is called
    pc,                    \* "call", "while", "body" or "done"
    z,                     \* repair_nonfinite: the array, repaired in place
    z_entry,               \* repair_nonfinite: z as it was on entry
    bad_index,             \* repair_nonfinite: the non-finite cells of z
    last,                  \* repair_nonfinite: what the last pass did
    corr,                  \* find_best_match_location: the surface
    array_around_maximum,  \* find_best_match_location: the neighbourhood
    array,                 \* get_correlation_shifts: the input
    y,                     \* parabolic_turning_point: the input
    clip,                  \* clip_edges: datacube, y and x
    ret                    \* the value the function has returned

vars == <<op, pc, z, z_entry, bad_index, last, corr, array_around_maximum,
          array, y, clip, ret>>

\* the empty array, and the value of what a call does not use
Empty == Array(0, 0, <<>>)

Unused == [status |-> "unused"]

\* repair_nonfinite is about to be called
RepairInit ==
    /\ ret = Unused
    /\ op = "repair_nonfinite"
    /\ pc = "call"
    /\ z = Empty /\ z_entry = Empty /\ bad_index = <<>> /\ last = Unused
    /\ corr = Empty /\ array_around_maximum = Unused
    /\ array = Empty /\ y = <<>> /\ clip = Unused

Init ==
    \/ RepairInit
    \/ /\ ret = Unused
       /\ \/ /\ op = "find_best_match_location"
             /\ pc = "call"
             \* the surface of a template smaller than the layer in both
             \* directions has at least two rows and two columns
             /\ \E s \in Shapes(2, MaxSurface) : IsSparseArray(corr, s)
             /\ z = Empty /\ z_entry = Empty /\ bad_index = <<>> /\ last = Unused
             /\ array_around_maximum = Unused
             /\ array = Empty /\ y = <<>> /\ clip = Unused
          \/ /\ op = "get_correlation_shifts"
             /\ pc = "call"
             /\ \E s \in Shapes(0, MaxArray) : IsSparseArray(array, s)
             /\ z = Empty /\ z_entry = Empty /\ bad_index = <<>> /\ last = Unused
             /\ corr = Empty /\ array_around_maximum = Unused
             /\ y = <<>> /\ clip = Unused
          \/ /\ op = "parabolic_turning_point"
             /\ pc = "call"
             /\ y \in Samples
             /\ z = Empty /\ z_entry = Empty /\ bad_index = <<>> /\ last = Unused
             /\ corr = Empty /\ array_around_maximum = Unused
             /\ array = Empty /\ clip = Unused
          \/ /\ op = "clip_edges"
             /\ pc = "call"
             /\ (IsClipArguments(clip) \/ clip = ExampleArguments)
             /\ z = Empty /\ z_entry = Empty /\ bad_index = <<>> /\ last = Unused
             /\ corr = Empty /\ array_around_maximum = Unused
             /\ array = Empty /\ y = <<>>

(***************************************************************************)
(* repair_nonfinite: the call, the test of the while loop (line 240), its  *)
(* body (lines 241-262) and the return (line 263).                         *)
(***************************************************************************)
\* the call with an array z, and line 239
RepairCall ==
    /\ op = "repair_nonfinite" /\ pc = "call"
    /\ IsLayer(z')
    /\ z_entry' = z'
    /\ bad_index' = BadIndex(z')
    /\ pc' = "while"
    /\ UNCHANGED <<op, last, corr, array_around_maximum, array, y, clip, ret>>

RepairWhile ==
    /\ op = "repair_nonfinite" /\ pc = "while"
    /\ Len(bad_index) # 0
    /\ pc' = "body"
    /\ UNCHANGED <<op, z, z_entry, bad_index, last, corr,
                   array_around_maximum, array, y, clip, ret>>

RepairBody ==
    /\ op = "repair_nonfinite" /\ pc = "body"
    /\ LET repaired == RepairOnce(z, bad_index)
       IN  /\ z' = repaired
           /\ bad_index' = BadIndex(repaired)
           /\ last' = [by |-> bad_index[1][1], bx |-> bad_index[1][2],
                       subarray |-> Window(z, bad_index[1][1], bad_index[1][2]),
                       value |-> repaired.a[bad_index[1]]]
    /\ pc' = "while"
    /\ UNCHANGED <<op, z_entry, corr, array_around_maximum, array, y, clip,
                   ret>>

RepairReturn ==
    /\ op = "repair_nonfinite" /\ pc = "while"
    /\ Len(bad_index) = 0
    /\ ret' = z
    /\ pc' = "done"
    /\ UNCHANGED <<op, z, z_entry, bad_index, last, corr,
                   array_around_maximum, array, y, clip>>

(***************************************************************************)
(* The other functions run in one step.                                    *)
(***************************************************************************)
FindBestMatchLocation ==
    /\ op = "find_best_match_location" /\ pc = "call"
    /\ array_around_maximum' = ArrayAroundMaximum(corr)
    /\ ret' = find_best_match_location(corr)
    /\ pc' = "done"
    /\ UNCHANGED <<op, z, z_entry, bad_index, last, corr, array, y, clip>>

GetCorrelationShifts ==
    /\ op = "get_correlation_shifts" /\ pc = "call"
    /\ ret' = get_correlation_shifts(array)
    /\ pc' = "done"
    /\ UNCHANGED <<op, z, z_entry, bad_index, last, corr,
                   array_around_maximum, array, y, clip>>

ParabolicTurningPoint ==
    /\ op = "parabolic_turning_point" /\ pc = "call"
    /\ ret' = parabolic_turning_point(y)
    /\ pc' = "done"
    /\ UNCHANGED <<op, z, z_entry, bad_index, last, corr,
                   array_around_maximum, array, y, clip>>

ClipEdges ==
    /\ op = "clip_edges" /\ pc = "call"
    /\ ret' = clip_edges(clip.datacube, clip.y, clip.x)
    /\ pc' = "done"
    /\ UNCHANGED <<op, z, z_entry, bad_index, last, corr,
                   array_around_maximum, array, y, clip>>

Next ==
    \/ RepairCall
    \/ RepairWhile
    \/ RepairBody
    \/ RepairReturn
    \/ FindBestMatchLocation
    \/ GetCorrelationShifts
    \/ ParabolicTurningPoint
    \/ ClipEdges

Spec == Init /\ [][Next]_vars

\* the calls of repair_nonfinite alone
RepairNext == RepairCall \/ RepairWhile \/ RepairBody \/ RepairReturn

\* control leaves the place of the loop it is at.  At "while" one of
\* RepairWhile and RepairReturn can be taken and at "body" RepairBody can, and
\* each of them moves pc, so that weak fairness of LoopStep is weak fairness
\* of the three: the interpreter keeps running a call that has begun.
LoopStep == pc \in {"while", "body"} /\ pc' \in {"while", "body", "done"}

RepairSpec == RepairInit /\ [][RepairNext]_vars /\ WF_pc(LoopStep)

(***************************************************************************)
(* Properties.                                                             *)
(***************************************************************************)
\* the cells that hold the maximum of a surface of finite scores
MaximumCells(surface) ==
    {p \in Cells(surface.ny, surface.nx) :
        \A q \in Cells(surface.ny, surface.nx) :
            FLeq(surface.a[q], surface.a[p])}

\* |v - i| <= 1/2 for a float v and an integer i
WithinHalf(v, i) == isfinite(v) /\ 2 * Abs(v.n - i * v.d) <= v.d

FoundBestMatch == op = "find_best_match_location" /\ pc = "done"

\* C1: for a surface whose maximum is attained at exactly one cell (r, c),
\* find_best_match_location returns (y, x) with |y - r| <= 0.5 and
\* |x - c| <= 0.5, wherever the cell lies.
C1_BestMatchWithinHalfPixel ==
    FoundBestMatch =>
        \A p \in MaximumCells(corr) :
            MaximumCells(corr) = {p} =>
                /\ ret.status = "return"
                /\ WithinHalf(ret.y, p[1])
                /\ WithinHalf(ret.x, p[2])

\* C3: the neighbourhood passed to get_correlation_shifts contains the
\* integer peak, and it is the 3x3 block centred on the peak whenever the
\* peak is at least one cell away from every border.
C3_NeighbourhoodAroundPeak ==
    FoundBestMatch =>
        LET peak == ArgMax(corr)
            r == peak[1]
            c == peak[2]
            n == array_around_maximum
        IN  /\ n.r0 <= r /\ r < n.r0 + n.ny
            /\ n.c0 <= c /\ c < n.c0 + n.nx
            /\ (1 <= r /\ r <= corr.ny - 2 /\ 1 <= c /\ c <= corr.nx - 2) =>
                   /\ n.r0 = r - 1 /\ n.ny = 3
                   /\ n.c0 = c - 1 /\ n.nx = 3

\* C4: the neighbourhood passed to get_correlation_shifts has between 1 and
\* 3 rows and between 1 and 3 columns, so the sentinel (None, None) is never
\* produced inside find_best_match_location.
C4_NeighbourhoodAtMostThree ==
    FoundBestMatch =>
        /\ array_around_maximum.ny \in 1 .. 3
        /\ array_around_maximum.nx \in 1 .. 3
        /\ get_correlation_shifts(array_around_maximum).y # None
        /\ get_correlation_shifts(array_around_maximum).x # None
        /\ ret.status = "return"

\* a neighbourhood of two rows and one column has been cut out for a peak in
\* the last but one row and the last column, and a shift has been returned
C4_Witness ==
    /\ FoundBestMatch
    /\ ArgMax(corr)[1] = corr.ny - 2
    /\ ArgMax(corr)[2] = corr.nx - 1
    /\ array_around_maximum.ny = 2
    /\ array_around_maximum.nx = 1
    /\ ret.status = "return"

\* the least integer that is not below the finite value v
Ceiling(v) ==
    CHOOSE i \in -(Abs(v.n) + 1) .. Abs(v.n) + 1 :
        i * v.d >= v.n /\ (i - 1) * v.d < v.n

\* the largest Ceiling(v) over the shifts v >= 0 of shifts, 0 if none
UpperMargin(shifts) ==
    SetMax({0} \cup {Ceiling(shifts[i]) :
                        i \in {j \in DOMAIN shifts : shifts[j].n >= 0}})

\* the largest Ceiling(-v) over the shifts v <= 0 of shifts, 0 if none
LowerMargin(shifts) ==
    SetMax({0} \cup {Ceiling(Fin(-shifts[i].n, shifts[i].d)) :
                        i \in {j \in DOMAIN shifts : shifts[j].n <= 0}})

Clipped == op = "clip_edges" /\ pc = "done"

\* C5: when the clip margins exceed the extent of the datacube along an
\* axis (lower + upper + 1 >= length), clip_edges returns a result with no
\* element along that axis.
C5_EmptyWhenMarginsExceed ==
    Clipped =>
        /\ (LowerMargin(clip.y) + UpperMargin(clip.y) + 1 >= clip.datacube.ny)
               => ret.ny = 0
        /\ (LowerMargin(clip.x) + UpperMargin(clip.x) + 1 >= clip.datacube.nx)
               => ret.nx = 0

NonFinite(layer) ==
    {p \in Cells(layer.ny, layer.nx) : ~isfinite(layer.a[p])}

Repairing == op = "repair_nonfinite"

\* C2: repair_nonfinite terminates and returns an array with no non-finite
\* entry for every input array with both dimensions >= 3 that holds at least
\* one finite value.
C2_RepairTerminates ==
    (/\ Repairing /\ pc = "while"
     /\ z_entry.ny >= 3 /\ z_entry.nx >= 3
     /\ NonFinite(z_entry) # Cells(z_entry.ny, z_entry.nx))
        ~> (Repairing /\ pc = "done" /\ NonFinite(ret) = {})

\* C7: repair_nonfinite never changes an entry that was finite when it was
\* called; on an array without non-finite entries it never enters the loop
\* body and returns the array as it was.
C7_FiniteEntriesKept ==
    (Repairing /\ pc # "call") =>
        /\ \A p \in Cells(z_entry.ny, z_entry.nx) :
               isfinite(z_entry.a[p]) => z.a[p] = z_entry.a[p]
        /\ NonFinite(z_entry) = {} =>
               /\ pc # "body"
               /\ z = z_entry
               /\ pc = "done" => ret = z_entry

\* two passes or more have repaired an array that held finite entries, and
\* the function has returned
C7_Witness ==
    /\ Repairing /\ pc = "done"
    /\ Cardinality(NonFinite(z_entry)) >= 2
    /\ Cardinality(NonFinite(z_entry)) < z_entry.ny * z_entry.nx
    /\ NonFinite(ret) = {}

\* C9: in an array with both dimensions >= 3 the window averaged for a
\* non-finite cell (by, bx) is a full 3x3 block inside the array that
\* contains the cell: centred on it in the interior, shifted one step inward
\* when the cell is in the first or last row or column; when the cell is the
\* only non-finite entry of the window, the value written is the mean of the
\* finite values of the window.
C9_WindowAndMean ==
    (Repairing /\ last # Unused /\ z.ny >= 3 /\ z.nx >= 3) =>
        LET w == last.subarray
            by == last.by
            bx == last.bx
            inner(b, n) == IF b = 0 THEN 1 ELSE IF b = n - 1 THEN n - 2 ELSE b
            finite == Cells(3, 3) \ NonFinite(w)
        IN  /\ w.ny = 3 /\ w.nx = 3
            /\ 0 <= w.r0 /\ w.r0 + 3 <= z.ny
            /\ 0 <= w.c0 /\ w.c0 + 3 <= z.nx
            /\ w.r0 <= by /\ by <= w.r0 + 2
            /\ w.c0 <= bx /\ bx <= w.c0 + 2
            /\ w.r0 + 1 = inner(by, z.ny)
            /\ w.c0 + 1 = inner(bx, z.nx)
            /\ NonFinite(w) = {<<by - w.r0, bx - w.c0>>} =>
                   /\ isfinite(last.value)
                   /\ FMul(last.value, Whole(8)) = SumOver(w.a, finite)

\* a lone non-finite cell of the first row has been replaced by the mean of
\* the eight finite entries of the window shifted inward
C9_Witness ==
    /\ Repairing /\ last # Unused /\ z.ny >= 3 /\ z.nx >= 3
    /\ last.by = 0
    /\ last.subarray.r0 = 0
    /\ Cardinality(NonFinite(last.subarray)) = 1
    /\ isfinite(last.value)
    /\ z.a[<<last.by, last.bx>>] = last.value

Fitted == op = "get_correlation_shifts" /\ pc = "done"

\* C8: get_correlation_shifts returns the sentinel (None, None), without
\* raising and without a fit, for an array with more than 3 rows or more than
\* 3 columns; for an array with 1 to 3 rows and 1 to 3 columns it never
\* returns the sentinel.
C8_SentinelIffTooBig ==
    Fitted =>
        /\ (array.ny > 3 \/ array.nx > 3) =>
               ret = [status |-> "return", y |-> None, x |-> None, fits |-> 0]
        /\ (array.ny \in 1 .. 3 /\ array.nx \in 1 .. 3) =>
               /\ ret.status = "return"
               /\ ret.y # None
               /\ ret.x # None

\* a 4x3 array has been answered with the sentinel
C8_Witness ==
    /\ Fitted
    /\ array.ny = 4 /\ array.nx = 3
    /\ ret.status = "return" /\ ret.y = None /\ ret.x = None

Turned == op = "parabolic_turning_point" /\ pc = "done"

\* C10: for y0 - 2*y1 + y2 # 0, parabolic_turning_point returns
\* -0.5*(y2 - y0)/(y0 - 2*y1 + y2), the abscissa -b/(2a) of the vertex of the
\* one parabola a*x^2 + b*x + c through (-1, y0), (0, y1), (1, y2); it is 0
\* when y0 = y2 and lies in [-0.5, 0.5] when y1 >= y0 and y1 >= y2.
C10_TurningPointIsVertex ==
    Turned =>
        LET y0 == y[0].n
            y1 == y[1].n
            y2 == y[2].n
            \* the parabolas (A/2)*x^2 + (B/2)*x + C through the three points
            through ==
                {t \in (-4 * MaxSample .. 4 * MaxSample)
                         \X (-2 * MaxSample .. 2 * MaxSample)
                         \X (-MaxSample .. MaxSample) :
                    /\ t[1] - t[2] + 2 * t[3] = 2 * y0
                    /\ t[3] = y1
                    /\ t[1] + t[2] + 2 * t[3] = 2 * y2}
        IN  y0 - 2 * y1 + y2 # 0 =>
                /\ isfinite(ret)
                /\ 2 * ret.n * (y0 - 2 * y1 + y2) = -(y2 - y0) * ret.d
                /\ Cardinality(through) = 1
                \* the slope A*x + B/2 is 0 at the returned x
                /\ \A t \in through : 2 * t[1] * ret.n + t[2] * ret.d = 0
                /\ y0 = y2 => ret = Whole(0)
                /\ (y1 >= y0 /\ y1 >= y2) => WithinHalf(ret, 0)

\* the turning point of a peak that is not symmetric: it is off the centre
\* and within half a sample of it
C10_Witness ==
    /\ Turned
    /\ y[1].n > y[0].n /\ y[0].n > y[2].n
    /\ isfinite(ret) /\ ret.n < 0
    /\ WithinHalf(ret, 0)

====
